---- MODULE Spec2Model ----
(***************************************************************************)
(* A model of aiomealie's MealieClient (src/src/aiomealie/mealie.py): the  *)
(* request pipeline `_request`, the household probe, the version cache,    *)
(* the facade operations and the session life cycle (close / async with).  *)
(*                                                                         *)
(* One caller drives one client.  A facade operation is one action: it     *)
(* runs the whole coroutine, the server's answer being chosen among the    *)
(* answers the transport can give, and leaves the outcome in `last`.  The  *)
(* caller then either handles the outcome (caller_continues), or, inside   *)
(* an `async with` block, lets it leave the block (__aexit__).             *)
(***************************************************************************)
EXTENDS Integers, Sequences, FiniteSets, TLC

(***************************************************************************)
(* Python values.  Optional[T] is a sequence of length at most one.        *)
(***************************************************************************)
None == <<>>
Some(v) == <<v>>

\* bool(x) of an Optional[str]: None and "" are falsy
TruthyStr(o) == o # None /\ o[1] # ""

\* bool(x) of an Optional[str] whose string is kept as a sequence of characters
TruthyChars(o) == o # None /\ o[1] # <<>>

\* the value of an Optional that is not None
Value(o) == o[1]

\* bool(x) of an Optional[bool]
TruthyBool(o) == o # None /\ o[1]

(***************************************************************************)
(* Bounds and input sets                                                   *)
(***************************************************************************)
\* how many times the caller may await close() on a client used without
\* `async with`
MaxCloseCalls == 2

\* the longest string put on the wire for an optional-string field
MaxStrLen == 3

\* how many coroutines are in flight on one client
NumTasks == 2

DefaultTimeout == 10

\* seconds the transport needs to deliver the response headers
Latencies == {2, 11}

\* status codes the server answers with
Statuses == {200, 400, 401, 404, 422, 500}

JsonMarker == "application/json"

\* Content-Type header values, as the sequence of pieces whose
\* concatenation is the header; None is a response without the header
ContentTypes ==
    { None,
      Some(<<"plain/text">>),
      Some(<<JsonMarker>>),
      Some(<<JsonMarker, "; charset=utf-8">>) }

\* version strings, as sequences of characters
V_1_12_0 == <<"1", ".", "1", "2", ".", "0">>
V_2_0_0 == <<"2", ".", "0", ".", "0">>
V_empty == <<>>
V_nightly == <<"n", "i", "g", "h", "t", "l", "y">>

\* components of the versions a server reports
Majors == {0, 1, 2, 3, 10}
Minors == {0, 12}
Patches == {0, 9}

EntryTypes == {"dinner", "lunch", "breakfast", "side"}

(***************************************************************************)
(* Response bodies, abstracted to what the decoders look at:               *)
(*   syntax    "malformed" (not JSON), "str", "num", "obj", "list"         *)
(*   str       the value of a bare JSON string                             *)
(*   complete  an object (or every object of a list) has every required    *)
(*             field of the record it is decoded into                      *)
(*   entryType the entryType literal of the object(s)                      *)
(*   version   the "version" member of the object                          *)
(***************************************************************************)
Text(sy, s, c, e, v) ==
    [syntax |-> sy, str |-> s, complete |-> c, entryType |-> e, version |-> v]

\* the body of a response that was never read
NoText == Text("unread", "", FALSE, "", None)

Texts ==
    { Text("malformed", "", FALSE, "", None),
      Text("str", "original-sacher-torte-2", FALSE, "", None),
      Text("num", "7", FALSE, "", None),
      Text("obj", "", FALSE, "dinner", None),
      Text("obj", "", TRUE, "brunch", Some(V_empty)),
      Text("obj", "", TRUE, "dinner", Some(V_1_12_0)),
      Text("obj", "", TRUE, "dinner", Some(V_2_0_0)),
      Text("list", "", TRUE, "dinner", None) }

(***************************************************************************)
(* The error taxonomy (src/src/aiomealie/exceptions.py)                    *)
(***************************************************************************)
NoExc == "none"
MealieError == "MealieError"
MealieConnectionError == "MealieConnectionError"
MealieAuthenticationError == "MealieAuthenticationError"
MealieValidationError == "MealieValidationError"
MealieNotFoundError == "MealieNotFoundError"
MealieBadRequestError == "MealieBadRequestError"

Taxonomy ==
    { MealieError, MealieConnectionError, MealieAuthenticationError,
      MealieValidationError, MealieNotFoundError, MealieBadRequestError }

\* `except MealieError` catches the base class and its five subclasses
IsMealieError(exc) == exc \in Taxonomy

METH_GET == "GET"
METH_POST == "POST"
METH_PUT == "PUT"
METH_DELETE == "DELETE"

(***************************************************************************)
(* State                                                                   *)
(***************************************************************************)
VARIABLES
    api_host,           \* MealieClient.api_host
    token,              \* MealieClient.token: Optional[str]
    session,            \* MealieClient.session: None, Some("supplied"), Some("created")
    request_timeout,    \* MealieClient.request_timeout
    _close_session,     \* MealieClient._close_session
    household_support,  \* MealieClient.household_support: Optional[bool]
    _version,           \* MealieClient._version: Optional[str]
    closeCalls,         \* per ClientSession: how often its close() was awaited
    sessionsCreated,    \* how many ClientSession() the client constructed
    lifecycle,          \* "constructed", "entered" (inside async with), "exited"
    exit_path,          \* how the async with block was left
    closes,             \* how often the caller awaited close() itself
    last,               \* the outcome of the call being delivered to the caller
    call,               \* a function of the library and the arguments it is given
    result,             \* Optional: what that function returned
    tasks               \* the coroutines in flight on the client, by task id

vars ==
    << api_host, token, session, request_timeout, _close_session,
       household_support, _version, closeCalls, sessionsCreated, lifecycle,
       exit_path, closes, last, call, result, tasks >>

\* what a sequential caller of the facade never touches
aside == << call, result, tasks >>
config == << api_host, token, request_timeout >>
caches == << household_support, _version >>
life == << closeCalls, lifecycle, exit_path, closes >>

SessionIds == {"supplied", "created"}

(***************************************************************************)
(* JSON / query values: dicts are functions from keys to tagged values     *)
(***************************************************************************)
IntV(i) == [t |-> "int", i |-> i, s |-> "", b |-> FALSE]
StrV(s) == [t |-> "str", i |-> 0, s |-> s, b |-> FALSE]
BoolV(b) == [t |-> "bool", i |-> 0, s |-> "", b |-> b]

EmptyDict == <<>>

\* d | {k: v} when cond, else d
PutIf(cond, d, k, v) == IF cond THEN (k :> v) @@ d ELSE d

\* datetime.date.isoformat(): YYYY-MM-DD, zero padded
DigitStr == <<"0", "1", "2", "3", "4", "5", "6", "7", "8", "9">>
Pad2(n) == DigitStr[((n \div 10) % 10) + 1] \o DigitStr[(n % 10) + 1]
Pad4(n) == Pad2(n \div 100) \o Pad2(n % 100)
isoformat(d) == Pad4(d.year) \o "-" \o Pad2(d.month) \o "-" \o Pad2(d.day)

(***************************************************************************)
(* The request pipeline: MealieClient._request                             *)
(***************************************************************************)
\* URL(self.api_host).joinpath(uri)
URLJoin(host, uri) == host \o "/" \o uri

\* the request headers; Authorization only for a truthy token
Headers(tok) ==
    [ UserAgent |-> "AioMealie/VERSION",
      Accept |-> "application/json, text/plain, */*",
      Authorization |-> IF TruthyStr(tok) THEN Some("Bearer " \o tok[1]) ELSE None ]

\* asyncio.timeout(request_timeout) around session.request: what the await
\* ends with when the response headers need `latency` seconds.  At exactly
\* the deadline either the response or the timeout may win.
Arrival(latency, timeout) ==
    IF latency < timeout THEN {"response"}
    ELSE IF latency = timeout THEN {"response", "timeout"}
    ELSE {"timeout"}

\* faulty variant of TransportError: a timeout raises the generic error
TransportErrorGenericTimeout(transport) ==
    IF transport = "timeout" THEN MealieError
    ELSE IF transport = "connerr" THEN MealieConnectionError
    ELSE NoExc

\* the except clauses around the await
TransportError(transport) ==
    IF transport = "timeout" THEN MealieConnectionError
    ELSE IF transport = "connerr" THEN MealieConnectionError
    ELSE NoExc

\* the status checks, in the order of the code
StatusError(status) ==
    IF status = 400 THEN MealieBadRequestError
    ELSE IF status = 401 THEN MealieAuthenticationError
    ELSE IF status = 422 THEN MealieValidationError
    ELSE IF status = 404 THEN MealieNotFoundError
    ELSE NoExc

\* response.headers.get("Content-Type", "")
HeaderGet(header, default) == IF header = None THEN default ELSE header[1]

\* "application/json" in content_type
HasJsonMarker(content_type) ==
    \E i \in 1..Len(content_type) : content_type[i] = JsonMarker

\* faulty variant of Classify: the content type is checked before the status
ClassifyContentTypeFirst(status, header) ==
    IF ~HasJsonMarker(HeaderGet(header, <<>>))
    THEN { [exc |-> MealieError, classified |-> TRUE,
            ctypeRead |-> TRUE, textRead |-> FALSE, text |-> NoText] }
    ELSE IF StatusError(status) # NoExc
    THEN { [exc |-> StatusError(status), classified |-> TRUE,
            ctypeRead |-> TRUE, textRead |-> FALSE, text |-> NoText] }
    ELSE { [exc |-> NoExc, classified |-> TRUE,
            ctypeRead |-> TRUE, textRead |-> TRUE, text |-> t]
           : t \in Texts }

\* faulty variant of Classify: the content type is not checked at all
ClassifyStatusOnly(status, header) ==
    IF StatusError(status) # NoExc
    THEN { [exc |-> StatusError(status), classified |-> TRUE,
            ctypeRead |-> FALSE, textRead |-> FALSE, text |-> NoText] }
    ELSE { [exc |-> NoExc, classified |-> TRUE,
            ctypeRead |-> FALSE, textRead |-> TRUE, text |-> t]
           : t \in Texts }

\* what _request does with a response that arrived: the exception raised or
\* the text returned, and which parts of the response it looked at
\* (classified: the status checks ran)
Classify(status, header) ==
    IF StatusError(status) # NoExc
    THEN { [exc |-> StatusError(status), classified |-> TRUE,
            ctypeRead |-> FALSE, textRead |-> FALSE, text |-> NoText] }
    ELSE IF ~HasJsonMarker(HeaderGet(header, <<>>))
    THEN { [exc |-> MealieError, classified |-> TRUE,
            ctypeRead |-> TRUE, textRead |-> FALSE, text |-> NoText] }
    ELSE { [exc |-> NoExc, classified |-> TRUE,
            ctypeRead |-> TRUE, textRead |-> TRUE, text |-> t]
           : t \in Texts }

\* an exchange: the request sent and everything _request saw of the answer
Exchange(method, uri, data, params, transport, latency, status, header, c) ==
    [ method |-> method, url |-> URLJoin(api_host, uri), uri |-> uri,
      headers |-> Headers(token), params |-> params, json |-> data,
      transport |-> transport, latency |-> latency,
      status |-> status, content_type |-> header,
      classified |-> c.classified,
      ctypeRead |-> c.ctypeRead, textRead |-> c.textRead,
      text |-> c.text, exc |-> c.exc ]

\* the outcome of an await that did not deliver a response
Failed(transport) ==
    [exc |-> TransportError(transport), classified |-> FALSE,
     ctypeRead |-> FALSE, textRead |-> FALSE, text |-> NoText]

\* every way one call of _request can go
_request(method, uri, data, params) ==
    { Exchange(method, uri, data, params, "connerr", 0, 0, None,
               Failed("connerr")) }
    \cup
    { Exchange(method, uri, data, params, "timeout", l, 0, None,
               Failed("timeout"))
      : l \in {k \in Latencies : "timeout" \in Arrival(k, request_timeout)} }
    \cup
    UNION { UNION { { Exchange(method, uri, data, params, "response",
                               ar[1], ar[2], h, c)
                      : c \in Classify(ar[2], h) }
                    : h \in ContentTypes }
            : ar \in {k \in Latencies \X Statuses :
                          "response" \in Arrival(k[1], request_timeout)} }

\* faulty variant of OpenSession: the ownership flag is set outside the
\* `if self.session is None`
OpenSessionAlwaysOwned ==
    /\ session' = IF session = None THEN Some("created") ELSE session
    /\ _close_session' = TRUE
    /\ sessionsCreated' = IF session = None THEN sessionsCreated + 1
                          ELSE sessionsCreated

\* the session a request runs on: created on first use when none was supplied
OpenSession ==
    /\ session' = IF session = None THEN Some("created") ELSE session
    /\ _close_session' = IF session = None THEN TRUE ELSE _close_session
    /\ sessionsCreated' = IF session = None THEN sessionsCreated + 1
                          ELSE sessionsCreated

_get(uri, params) == _request(METH_GET, uri, None, params)
_post(uri, data, params) == _request(METH_POST, uri, data, params)
_put(uri, data, params) == _request(METH_PUT, uri, data, params)
_delete(uri, data, params) == _request(METH_DELETE, uri, data, params)

(***************************************************************************)
(* Decoding a response text into a record (mashumaro / orjson).  The       *)
(* decoders raise their own exceptions; none of them is a MealieError.     *)
(***************************************************************************)
NoRet == [type |-> "None", text |-> NoText, flag |-> FALSE, ver |-> None]
RecordRet(target, text) == [type |-> target, text |-> text, flag |-> FALSE, ver |-> None]
BoolRet(b) == [type |-> "bool", text |-> NoText, flag |-> b, ver |-> None]
StrRet(v) == [type |-> "str", text |-> NoText, flag |-> FALSE, ver |-> v]

\* the records that hold a Mealplan, whose entryType is a MealplanEntryType
MealplanTargets == {"Mealplan", "MealplanResponse", "list[Mealplan]"}

TargetSyntax(target) == IF target = "list[Mealplan]" THEN "list" ELSE "obj"

\* X.from_json(response) / ORJSONDecoder(list[Mealplan]).decode(response)
Decode(target, text) ==
    IF text.syntax = "malformed"
    THEN [exc |-> "JSONDecodeError", ret |-> NoRet]
    ELSE IF text.syntax # TargetSyntax(target)
    THEN [exc |-> "TypeError", ret |-> NoRet]
    ELSE IF ~text.complete
    THEN [exc |-> "MissingField", ret |-> NoRet]
    ELSE IF target \in MealplanTargets /\ text.entryType \notin EntryTypes
    THEN [exc |-> "InvalidFieldValue", ret |-> NoRet]
    ELSE [exc |-> NoExc, ret |-> RecordRet(target, text)]

(***************************************************************************)
(* OptionalStringSerializationStrategy and the fields that use it.         *)
(* Strings are sequences of characters here, so that strip() is computed.  *)
(***************************************************************************)
Whitespace == {" "}
WireChars == {" ", "x"}

\* the strings of at most n characters
RECURSIVE StringsUpTo(_)
StringsUpTo(n) ==
    IF n = 0 THEN { <<>> }
    ELSE LET shorter == StringsUpTo(n - 1)
         IN  shorter \cup {<<c>> \o w : c \in WireChars,
                                        w \in {v \in shorter : Len(v) = n - 1}}

\* what the JSON object holds under the key of a field
Absent == [kind |-> "absent", chars |-> <<>>]
Null == [kind |-> "null", chars |-> <<>>]
WireValues ==
    {Absent, Null} \cup {[kind |-> "str", chars |-> w] : w \in StringsUpTo(MaxStrLen)}

RECURSIVE lstrip(_)
lstrip(cs) ==
    IF cs # <<>> /\ Head(cs) \in Whitespace THEN lstrip(Tail(cs)) ELSE cs

RECURSIVE rstrip(_)
rstrip(cs) ==
    IF cs # <<>> /\ cs[Len(cs)] \in Whitespace
    THEN rstrip(SubSeq(cs, 1, Len(cs) - 1))
    ELSE cs

\* str.strip()
strip(cs) == rstrip(lstrip(cs))

\* OptionalStringSerializationStrategy.deserialize(value)
deserialize(value) ==
    IF ~TruthyChars(value) THEN None
    ELSE LET val == strip(Value(value))
         IN  IF val # <<>> THEN Some(val) ELSE None

\* the fields declared with the strategy; has_default: declared with default=None
NormalizedFields ==
    { [owner |-> "Instruction", name |-> "title", alias |-> "title",
       has_default |-> FALSE],
      [owner |-> "BaseRecipe", name |-> "household_id", alias |-> "householdId",
       has_default |-> TRUE],
      [owner |-> "Mealplan", name |-> "title", alias |-> "title",
       has_default |-> FALSE],
      [owner |-> "Mealplan", name |-> "description", alias |-> "text",
       has_default |-> FALSE],
      [owner |-> "Mealplan", name |-> "household_id", alias |-> "householdId",
       has_default |-> TRUE] }

\* what from_dict does for one such field: a key that is absent gives the
\* default of the field, and MissingField when the field has none; a value
\* that is present goes through the strategy
from_dict_field(fld, wire) ==
    IF wire.kind = "absent"
    THEN IF fld.has_default THEN [exc |-> NoExc, value |-> None]
         ELSE [exc |-> "MissingField", value |-> None]
    ELSE [exc |-> NoExc,
          value |-> deserialize(IF wire.kind = "null" THEN None
                                ELSE Some(wire.chars))]

(***************************************************************************)
(* AwesomeVersion: a version is valid when it is dot-separated numbers;    *)
(* valid versions compare number by number                                 *)
(***************************************************************************)
DigitSet == {DigitStr[i] : i \in 1..10}
DigitVal(c) == CHOOSE i \in 0..9 : DigitStr[i + 1] = c

RECURSIVE SplitDots(_)
SplitDots(s) ==
    IF s = <<>> THEN << <<>> >>
    ELSE LET rest == SplitDots(Tail(s))
         IN  IF Head(s) = "." THEN << <<>> >> \o rest
             ELSE << <<Head(s)>> \o Head(rest) >> \o Tail(rest)

RECURSIVE NumberOf(_)
NumberOf(cs) ==
    IF cs = <<>> THEN 0
    ELSE NumberOf(SubSeq(cs, 1, Len(cs) - 1)) * 10 + DigitVal(cs[Len(cs)])

IsNumber(cs) == cs # <<>> /\ \A i \in 1..Len(cs) : cs[i] \in DigitSet

\* AwesomeVersion(v): str(None) is "None", which is no version
AwesomeVersion(v) ==
    IF v = None THEN [valid |-> FALSE, parts |-> <<>>]
    ELSE LET sp == SplitDots(v[1])
         IN  IF \A i \in 1..Len(sp) : IsNumber(sp[i])
             THEN [valid |-> TRUE, parts |-> [i \in 1..Len(sp) |-> NumberOf(sp[i])]]
             ELSE [valid |-> FALSE, parts |-> <<>>]

Part(a, i) == IF i <= Len(a.parts) THEN a.parts[i] ELSE 0

\* str(n) of a natural number
RECURSIVE NumChars(_)
NumChars(n) ==
    IF n < 10 THEN <<DigitStr[n + 1]>>
    ELSE NumChars(n \div 10) \o <<DigitStr[(n % 10) + 1]>>

\* faulty variant of VersionLess: components compared by their first
\* character, the way the strings "10" and "2" compare
VersionLessLexical(a, b) ==
    LET n == IF Len(a.parts) > Len(b.parts) THEN Len(a.parts) ELSE Len(b.parts)
        lead(x, i) == DigitVal(Head(NumChars(Part(x, i))))
    IN  \E i \in 1..n :
            /\ lead(a, i) < lead(b, i)
            /\ \A j \in 1..(i - 1) : lead(a, j) = lead(b, j)

\* a < b
VersionLess(a, b) ==
    LET n == IF Len(a.parts) > Len(b.parts) THEN Len(a.parts) ELSE Len(b.parts)
    IN  \E i \in 1..n :
            /\ Part(a, i) < Part(b, i)
            /\ \A j \in 1..(i - 1) : Part(a, j) = Part(b, j)

(***************************************************************************)
(* Inputs of the facade operations                                         *)
(***************************************************************************)
Slugs == {"original-sacher-torte-2"}
RecipeUrls == {"https://www.sacher.com/en/original-sacher-torte/recipe/"}
Date(y, m, d) == [year |-> y, month |-> m, day |-> d]
StartDates == {None, Some(Date(2021, 1, 1))}
EndDates == {None, Some(Date(2021, 1, 2))}
Dates == {Date(2021, 1, 1)}
Searches == {None, Some(""), Some("torte")}
PageSizes == {50}
ListIds == {"27edbaab"}
ItemIds == {"64207a44"}
RecipeIds == {None, Some(""), Some("c5f00a93")}
NoteTitles == {None, Some(""), Some("Note Title")}
NoteTexts == {None, Some("Note Text")}
\* arguments of the functions evaluated on their own
CalendarDates == {Date(2021, 1, 1), Date(2024, 12, 31)}
OptionalDates == {None} \cup {Some(d) : d \in CalendarDates}
OptionalNoteTexts == {None, Some(""), Some("Note Text")}
\* the entry types the caller plans meals for
PlannedTypes == {"breakfast"}

\* MutateShoppingItem: field name -> wire alias, in declaration order
ItemFields ==
    << <<"item_id", "id">>, <<"list_id", "shoppingListId">>,
       <<"note", "note">>, <<"display", "display">>,
       <<"checked", "checked">>, <<"position", "position">>,
       <<"is_food", "isFood">>, <<"disable_amount", "disableAmount">>,
       <<"quantity", "quantity">>, <<"label_id", "labelId">>,
       <<"food_id", "foodId">>, <<"unit_id", "unitId">> >>

ItemFieldNames == {ItemFields[i][1] : i \in 1..Len(ItemFields)}

\* MutateShoppingItem(): every field defaults to None
MutateShoppingItem == [f \in ItemFieldNames |-> None]

Items ==
    { MutateShoppingItem,
      [MutateShoppingItem EXCEPT !["list_id"] = Some(StrV("27edbaab")),
                                 !["note"] = Some(StrV("Bread")),
                                 !["position"] = Some(IntV(0))],
      [MutateShoppingItem EXCEPT !["item_id"] = Some(StrV("64207a44")),
                                 !["checked"] = Some(BoolV(FALSE)),
                                 !["unit_id"] = Some(StrV(""))] }

\* the values a caller gives to the fields of a MutateShoppingItem
ItemValues ==
    [ item_id : {StrV("64207a44")}, list_id : {StrV("27edbaab")},
      note : {StrV(""), StrV("Bread")}, display : {StrV("Bread")},
      checked : {BoolV(FALSE), BoolV(TRUE)}, position : {IntV(0), IntV(3)},
      is_food : {BoolV(TRUE)}, disable_amount : {BoolV(FALSE)},
      quantity : {IntV(2)}, label_id : {StrV("f7af0506")},
      food_id : {StrV("09322430")}, unit_id : {StrV("7bf539d4")} ]

\* MutateShoppingItem(**kwargs): any subset of the fields is set
AllItems ==
    { [f \in ItemFieldNames |-> IF f \in given THEN Some(v[f]) ELSE None]
      : given \in SUBSET ItemFieldNames, v \in ItemValues }

\* faulty variant of to_dict: falsy values are omitted like None
to_dict_omit_falsy(item) ==
    LET truthy(v) == (v.t = "int" /\ v.i # 0) \/ (v.t = "str" /\ v.s # "")
                     \/ (v.t = "bool" /\ v.b)
        set == {i \in 1..Len(ItemFields) :
                    /\ item[ItemFields[i][1]] # None
                    /\ truthy(item[ItemFields[i][1]][1])}
    IN  [k \in {ItemFields[i][2] : i \in set} |->
            item[ItemFields[CHOOSE i \in set : ItemFields[i][2] = k][1]][1]]

\* item.to_dict(omit_none=True) with serialize_by_alias
to_dict(item) ==
    LET set == {i \in 1..Len(ItemFields) : item[ItemFields[i][1]] # None}
    IN  [k \in {ItemFields[i][2] : i \in set} |->
            item[ItemFields[CHOOSE i \in set : ItemFields[i][2] = k][1]][1]]

(***************************************************************************)
(* The client facade                                                       *)
(***************************************************************************)
Outcome(o, reqs, exc, ret) == [op |-> o, reqs |-> reqs, exc |-> exc, ret |-> ret]

\* no call is being delivered
NoCall == Outcome("none", <<>>, NoExc, NoRet)

\* no function is being evaluated on its own, no coroutine is in flight
NoFunction == [fn |-> "none"]
NoTasks == <<>>

\* the caller issues calls one at a time, and none after it closed the client
CanCall ==
    /\ lifecycle \in {"constructed", "entered"}
    /\ closes = 0
    /\ last.op = "none"

\* faulty variant of _versioned_path: the household prefix as soon as the
\* flag is set, whatever its value
VersionedPathWhenProbed(path_end) ==
    IF household_support # None THEN "api/households/" \o path_end
    ELSE "api/groups/" \o path_end

\* self._versioned_path(path_end)
_versioned_path(path_end) ==
    IF TruthyBool(household_support) THEN "api/households/" \o path_end
    ELSE "api/groups/" \o path_end

\* `response = await self._xxx(...)` followed by the decode of the response,
\* or by nothing when the operation returns None (target "None")
Returned(o, x, target) ==
    IF x.exc # NoExc THEN Outcome(o, <<x>>, x.exc, NoRet)
    ELSE IF target = "None" THEN Outcome(o, <<x>>, NoExc, NoRet)
    ELSE Outcome(o, <<x>>, Decode(target, x.text).exc, Decode(target, x.text).ret)

\* faulty variant of Fetch: a request that failed to connect is sent again
FetchWithRetry(o, exchanges, target) ==
    /\ CanCall
    /\ \E x \in exchanges :
          IF x.exc = MealieConnectionError
          THEN \E y \in exchanges :
                  last' = [Returned(o, y, target) EXCEPT !.reqs = <<x, y>>]
          ELSE last' = Returned(o, x, target)
    /\ OpenSession
    /\ UNCHANGED << aside, config, caches, life >>

\* an operation that awaits one request and decodes its response
Fetch(o, exchanges, target) ==
    /\ CanCall
    /\ \E x \in exchanges : last' = Returned(o, x, target)
    /\ OpenSession
    /\ UNCHANGED << aside, config, caches, life >>

\* faulty variant of define_household_support: only "not found" is caught
define_household_support_not_found_only ==
    /\ CanCall
    /\ \E x \in _get("api/households/mealplans/today", None) :
          IF x.exc # NoExc /\ x.exc # MealieNotFoundError
          THEN /\ last' = Outcome("define_household_support", <<x>>, x.exc, NoRet)
               /\ UNCHANGED household_support
          ELSE /\ household_support' = Some(x.exc = NoExc)
               /\ last' = Outcome("define_household_support", <<x>>, NoExc,
                                  BoolRet(x.exc = NoExc))
    /\ OpenSession
    /\ UNCHANGED << aside, config, _version, life >>

define_household_support ==
    /\ CanCall
    /\ \E x \in _get("api/households/mealplans/today", None) :
          LET supported == ~IsMealieError(x.exc)
          IN  /\ household_support' = Some(supported)
              /\ last' = Outcome("define_household_support", <<x>>, NoExc,
                                 BoolRet(supported))
    /\ OpenSession
    /\ UNCHANGED << aside, config, _version, life >>

get_startup_info ==
    Fetch("get_startup_info", _get("api/app/about/startup-info", None),
          "StartupInfo")

get_about == Fetch("get_about", _get("api/app/about", None), "About")

\* faulty variant of version: get_about() only when nothing is stored
\* (`if self._version is None`)
version_unless_stored ==
    /\ CanCall
    /\ IF _version = None
       THEN /\ \E x \in _get("api/app/about", None) :
                  LET about == Returned("version", x, "About")
                  IN  IF about.exc # NoExc
                      THEN /\ last' = about
                           /\ UNCHANGED _version
                      ELSE /\ _version' = about.ret.text.version
                           /\ last' = Outcome("version", <<x>>, NoExc,
                                              StrRet(about.ret.text.version))
            /\ OpenSession
       ELSE /\ last' = Outcome("version", <<>>, NoExc, StrRet(_version))
            /\ UNCHANGED << _version, session, _close_session, sessionsCreated >>
    /\ UNCHANGED << aside, config, household_support, life >>

\* the `version` property: get_about() unless a truthy version is stored
version ==
    /\ CanCall
    /\ IF ~TruthyChars(_version)
       THEN /\ \E x \in _get("api/app/about", None) :
                  LET about == Returned("version", x, "About")
                  IN  IF about.exc # NoExc
                      THEN /\ last' = about
                           /\ UNCHANGED _version
                      ELSE /\ _version' = about.ret.text.version
                           /\ last' = Outcome("version", <<x>>, NoExc,
                                              StrRet(about.ret.text.version))
            /\ OpenSession
       ELSE /\ last' = Outcome("version", <<>>, NoExc, StrRet(_version))
            /\ UNCHANGED << _version, session, _close_session, sessionsCreated >>
    /\ UNCHANGED << aside, config, household_support, life >>

get_user_info == Fetch("get_user_info", _get("api/users/self", None), "UserInfo")

get_groups_self ==
    Fetch("get_groups_self", _get("api/groups/self", None), "GroupSummary")

get_theme == Fetch("get_theme", _get("api/app/about/theme", None), "Theme")

get_recipes ==
    \E search \in Searches, per_page \in PageSizes :
        LET params == PutIf(TruthyStr(search), "perPage" :> IntV(per_page),
                            "search", StrV(Value(search)))
        IN  Fetch("get_recipes", _get("api/recipes", Some(params)),
                  "RecipesResponse")

get_recipe ==
    \E recipe_id_or_slug \in Slugs :
        Fetch("get_recipe", _get("api/recipes/" \o recipe_id_or_slug, None),
              "Recipe")

\* the endpoint import_recipe posts to, decided on the stored version
ImportUri(stored) ==
    IF AwesomeVersion(stored).valid
       /\ VersionLess(AwesomeVersion(stored), AwesomeVersion(Some(V_2_0_0)))
    THEN "api/recipes/create-url"
    ELSE "api/recipes/create/url"

\* faulty variant of LoadedPath: the response text is used as it came, a
\* JSON string with its quotes
LoadedPathQuoted(text) ==
    IF text.syntax = "str" THEN "api/recipes/\"" \o text.str \o "\""
    ELSE IF text.syntax = "num" THEN "api/recipes/" \o text.str
    ELSE IF text.syntax = "list" THEN "api/recipes/[...]"
    ELSE "api/recipes/{...}"

\* f"api/recipes/{json.loads(response)}"
LoadedPath(text) ==
    IF text.syntax \in {"str", "num"} THEN "api/recipes/" \o text.str
    ELSE IF text.syntax = "list" THEN "api/recipes/[...]"
    ELSE "api/recipes/{...}"

import_recipe ==
    /\ CanCall
    /\ \E url \in RecipeUrls, include_tags \in BOOLEAN :
          LET data == ("url" :> StrV(url)) @@ ("include_tags" :> BoolV(include_tags))
          IN  \E x \in _post(ImportUri(_version), Some(data), None) :
                IF x.exc # NoExc
                THEN last' = Outcome("import_recipe", <<x>>, x.exc, NoRet)
                ELSE IF x.text.syntax = "malformed"
                THEN last' = Outcome("import_recipe", <<x>>, "JSONDecodeError", NoRet)
                ELSE \E y \in _get(LoadedPath(x.text), None) :
                        LET recipe == Returned("get_recipe", y, "Recipe")
                        IN  last' = Outcome("import_recipe", <<x, y>>,
                                            recipe.exc, recipe.ret)
    /\ OpenSession
    /\ UNCHANGED << aside, config, caches, life >>

get_mealplan_today ==
    Fetch("get_mealplan_today", _get(_versioned_path("mealplans/today"), None),
          "list[Mealplan]")

\* faulty variant of MealplansParams: a bound that is not given is sent empty
MealplansParamsEmptyBounds(start_date, end_date) ==
    ("perPage" :> IntV(-1))
    @@ ("start_date" :> StrV(IF start_date # None
                              THEN isoformat(start_date[1]) ELSE ""))
    @@ ("end_date" :> StrV(IF end_date # None
                            THEN isoformat(end_date[1]) ELSE ""))

\* the query of get_mealplans
MealplansParams(start_date, end_date) ==
    LET p1 == IF start_date # None
              THEN "start_date" :> StrV(isoformat(start_date[1]))
              ELSE EmptyDict
        p2 == IF end_date # None
              THEN ("end_date" :> StrV(isoformat(end_date[1]))) @@ p1
              ELSE p1
    IN  ("perPage" :> IntV(-1)) @@ p2

get_mealplans ==
    \E start_date \in StartDates, end_date \in EndDates :
        Fetch("get_mealplans",
              _get(_versioned_path("mealplans"),
                   Some(MealplansParams(start_date, end_date))),
              "MealplanResponse")

get_shopping_lists ==
    Fetch("get_shopping_lists",
          _get(_versioned_path("shopping/lists"), Some("perPage" :> IntV(-1))),
          "ShoppingListsResponse")

get_shopping_items ==
    \E shopping_list_id \in ListIds :
        LET params == ("queryFilter" :> StrV("shoppingListId=" \o shopping_list_id))
                      @@ ("orderBy" :> StrV("position"))
                      @@ ("orderDirection" :> StrV("asc"))
                      @@ ("perPage" :> IntV(-1))
        IN  Fetch("get_shopping_items",
                  _get(_versioned_path("shopping/items"), Some(params)),
                  "ShoppingItemsResponse")

add_shopping_item ==
    \E item \in Items :
        Fetch("add_shopping_item",
              _post(_versioned_path("shopping/items"), Some(to_dict(item)), None),
              "None")

update_shopping_item ==
    \E item_id \in ItemIds, item \in Items :
        Fetch("update_shopping_item",
              _put(_versioned_path("shopping/items") \o "/" \o item_id,
                   Some(to_dict(item)), None),
              "None")

delete_shopping_item ==
    \E item_id \in ItemIds :
        Fetch("delete_shopping_item",
              _delete(_versioned_path("shopping/items") \o "/" \o item_id,
                      None, None),
              "None")

\* faulty variant of get_statistics: an unset flag is probed for first
get_statistics_probing ==
    /\ CanCall
    /\ IF household_support = None
       THEN \E p \in _get("api/households/mealplans/today", None) :
               /\ household_support' = Some(p.exc = NoExc)
               /\ \E x \in _get((IF p.exc = NoExc THEN "api/households/"
                                  ELSE "api/groups/") \o "statistics", None) :
                     last' = [Returned("get_statistics", x, "Statistics")
                                EXCEPT !.reqs = <<p, x>>]
       ELSE /\ \E x \in _get(_versioned_path("statistics"), None) :
                  last' = Returned("get_statistics", x, "Statistics")
            /\ UNCHANGED household_support
    /\ OpenSession
    /\ UNCHANGED << aside, config, _version, life >>

get_statistics ==
    Fetch("get_statistics", _get(_versioned_path("statistics"), None),
          "Statistics")

random_mealplan ==
    \E at \in Dates, entry_type \in PlannedTypes :
        LET data == ("date" :> StrV(isoformat(at)))
                    @@ ("entryType" :> StrV(entry_type))
        IN  Fetch("random_mealplan",
                  _post(_versioned_path("mealplans/random"), Some(data), None),
                  "Mealplan")

\* faulty variant of MealplanData: the text is added whenever it is given
MealplanDataTextAlone(at, entry_type, recipe_id, note_title, note_text) ==
    LET d0 == ("date" :> StrV(isoformat(at)))
              @@ ("entryType" :> StrV(entry_type))
        d1 == PutIf(TruthyStr(recipe_id), d0, "recipeId",
                    StrV(Value(recipe_id)))
        d2 == PutIf(TruthyStr(note_title), d1, "title",
                    StrV(Value(note_title)))
    IN  PutIf(TruthyStr(note_text), d2, "text", StrV(Value(note_text)))

\* the body of set_mealplan
MealplanData(at, entry_type, recipe_id, note_title, note_text) ==
    LET d0 == ("date" :> StrV(isoformat(at)))
              @@ ("entryType" :> StrV(entry_type))
        d1 == PutIf(TruthyStr(recipe_id), d0, "recipeId",
                    StrV(Value(recipe_id)))
        d2 == PutIf(TruthyStr(note_title), d1, "title",
                    StrV(Value(note_title)))
    IN  PutIf(TruthyStr(note_title) /\ TruthyStr(note_text), d2,
              "text", StrV(Value(note_text)))

set_mealplan ==
    \E at \in Dates, entry_type \in PlannedTypes, recipe_id \in RecipeIds,
       note_title \in NoteTitles, note_text \in NoteTexts :
        Fetch("set_mealplan",
              _post(_versioned_path("mealplans"),
                    Some(MealplanData(at, entry_type, recipe_id,
                                      note_title, note_text)), None),
              "Mealplan")

(***************************************************************************)
(* The life cycle: close(), `async with`                                   *)
(***************************************************************************)
\* faulty variant of ShouldClose: the ownership flag is ignored
ShouldCloseAnySession == session # None

\* `if self.session and self._close_session`
ShouldClose == session # None /\ _close_session

\* the body of close(): await self.session.close() under the guard
CloseSession ==
    closeCalls' = IF ShouldClose
                  THEN [closeCalls EXCEPT ![session[1]] = @ + 1]
                  ELSE closeCalls

\* the caller awaits close() on a client that is not used as a context manager
close ==
    /\ lifecycle = "constructed"
    /\ last.op = "none"
    /\ closes < MaxCloseCalls
    /\ closes' = closes + 1
    /\ CloseSession
    /\ UNCHANGED << aside, config, caches, session, _close_session, sessionsCreated,
                    lifecycle, exit_path, last >>

\* `async with MealieClient(...) as client:`
__aenter__ ==
    /\ lifecycle = "constructed"
    /\ last.op = "none"
    /\ closes = 0
    /\ sessionsCreated = 0
    /\ caches = << None, None >>
    /\ lifecycle' = "entered"
    /\ UNCHANGED << aside, config, caches, session, _close_session, sessionsCreated,
                    closeCalls, exit_path, closes, last >>

\* the ways the block can be left in the current state: with the exception
\* of the last call, or by reaching its end / returning from inside it
ExitPaths == IF last.exc # NoExc THEN {"error"} ELSE {"normal", "early"}

\* faulty variant of __aexit__: close() is skipped when an exception leaves
\* the block
aexit_unless_raised ==
    /\ lifecycle = "entered"
    /\ \E path \in ExitPaths :
          /\ exit_path' = path
          /\ IF path = "error" THEN UNCHANGED closeCalls ELSE CloseSession
    /\ lifecycle' = "exited"
    /\ UNCHANGED << aside, config, caches, session, _close_session, sessionsCreated,
                    closes, last >>

\* leaving the block: __aexit__(*exc_info) awaits close() whatever exc_info is
__aexit__ ==
    /\ lifecycle = "entered"
    /\ \E path \in ExitPaths : exit_path' = path
    /\ lifecycle' = "exited"
    /\ CloseSession
    /\ UNCHANGED << aside, config, caches, session, _close_session, sessionsCreated,
                    closes, last >>

\* the caller takes the returned value, or catches the exception, and goes on
caller_continues ==
    /\ lifecycle # "exited"
    /\ last.op # "none"
    /\ last' = NoCall
    /\ UNCHANGED << aside, config, caches, session, _close_session, sessionsCreated,
                    life >>

(***************************************************************************)
(* The specification                                                       *)
(***************************************************************************)
\* the ways the client is constructed:
\*   MealieClient(api_host=..., token="XXX")
\*   MealieClient(api_host=..., session=session)
\*   MealieClient(api_host=..., request_timeout=1)
Constructions ==
    { [token |-> Some("XXX"), session |-> None, request_timeout |-> DefaultTimeout],
      [token |-> None, session |-> Some("supplied"), request_timeout |-> DefaultTimeout],
      [token |-> None, session |-> None, request_timeout |-> 1] }

Init ==
    /\ api_host = "https://demo.mealie.io"
    /\ \E c \in Constructions :
          /\ token = c.token
          /\ session = c.session
          /\ request_timeout = c.request_timeout
    /\ _close_session = FALSE
    /\ household_support = None
    /\ _version = None
    /\ closeCalls = [s \in SessionIds |-> 0]
    /\ sessionsCreated = 0
    /\ lifecycle = "constructed"
    /\ exit_path = "none"
    /\ closes = 0
    /\ last = NoCall
    /\ call = NoFunction
    /\ result = None
    /\ tasks = NoTasks

Next ==
    \/ define_household_support
    \/ version
    \/ get_startup_info
    \/ get_about
    \/ get_user_info
    \/ get_groups_self
    \/ get_theme
    \/ get_recipes
    \/ get_recipe
    \/ import_recipe
    \/ get_mealplan_today
    \/ get_mealplans
    \/ get_shopping_lists
    \/ get_shopping_items
    \/ add_shopping_item
    \/ update_shopping_item
    \/ delete_shopping_item
    \/ get_statistics
    \/ random_mealplan
    \/ set_mealplan
    \/ close
    \/ __aenter__
    \/ __aexit__
    \/ caller_continues

Spec == Init /\ [][Next]_vars

(***************************************************************************)
(* Recipe import on a client that has already cached the server's version  *)
(***************************************************************************)
\* "major.minor.patch"
VersionChars(a, b, c) ==
    NumChars(a) \o <<".">> \o NumChars(b) \o <<".">> \o NumChars(c)

\* what about.version may hold
ReportedVersions ==
    {VersionChars(a, b, c) : a \in Majors, b \in Minors, c \in Patches}
        \cup {V_nightly, V_empty}

InitImport ==
    /\ api_host = "https://demo.mealie.io"
    /\ \E c \in Constructions :
          /\ token = c.token
          /\ session = c.session
          /\ request_timeout = c.request_timeout
    /\ _close_session = FALSE
    /\ household_support = None
    /\ _version \in {None} \cup {Some(v) : v \in ReportedVersions}
    /\ closeCalls = [s \in SessionIds |-> 0]
    /\ sessionsCreated = 0
    /\ lifecycle = "constructed"
    /\ exit_path = "none"
    /\ closes = 0
    /\ last = NoCall
    /\ call = NoFunction
    /\ result = None
    /\ tasks = NoTasks

NextImport ==
    \/ import_recipe
    \/ caller_continues

SpecImport == InitImport /\ [][NextImport]_vars

(***************************************************************************)
(* The decoding and encoding functions, evaluated on their own: `call` is  *)
(* drawn in the initial state and `result` receives what is returned       *)
(***************************************************************************)
InitFunctions ==
    /\ api_host = "https://demo.mealie.io"
    /\ token = None
    /\ session = None
    /\ request_timeout = DefaultTimeout
    /\ _close_session = FALSE
    /\ household_support = None
    /\ _version = None
    /\ closeCalls = [s \in SessionIds |-> 0]
    /\ sessionsCreated = 0
    /\ lifecycle = "constructed"
    /\ exit_path = "none"
    /\ closes = 0
    /\ last = NoCall
    /\ result = None
    /\ tasks = NoTasks
    /\ \/ \E fld \in NormalizedFields, wire \in WireValues :
             call = [fn |-> "from_dict", fld |-> fld, wire |-> wire]
       \/ \E item \in AllItems :
             call = [fn |-> "to_dict", item |-> item]
       \/ \E at \in CalendarDates, entry_type \in EntryTypes,
             recipe_id \in RecipeIds, note_title \in NoteTitles,
             note_text \in OptionalNoteTexts :
             call = [fn |-> "set_mealplan", at |-> at, entry_type |-> entry_type,
                     recipe_id |-> recipe_id, note_title |-> note_title,
                     note_text |-> note_text]
       \/ \E start_date \in OptionalDates, end_date \in OptionalDates :
             call = [fn |-> "get_mealplans", start_date |-> start_date,
                     end_date |-> end_date]

\* everything but `result`
client == << config, caches, life, session, _close_session, sessionsCreated,
             last, call, tasks >>

decode_field ==
    /\ call.fn = "from_dict"
    /\ result = None
    /\ result' = Some(from_dict_field(call.fld, call.wire))
    /\ UNCHANGED client

serialize_item ==
    /\ call.fn = "to_dict"
    /\ result = None
    /\ result' = Some(to_dict(call.item))
    /\ UNCHANGED client

build_mealplan_data ==
    /\ call.fn = "set_mealplan"
    /\ result = None
    /\ result' = Some(MealplanData(call.at, call.entry_type, call.recipe_id,
                                   call.note_title, call.note_text))
    /\ UNCHANGED client

build_mealplans_params ==
    /\ call.fn = "get_mealplans"
    /\ result = None
    /\ result' = Some(MealplansParams(call.start_date, call.end_date))
    /\ UNCHANGED client

NextFunctions ==
    \/ decode_field
    \/ serialize_item
    \/ build_mealplan_data
    \/ build_mealplans_params

SpecFunctions == InitFunctions /\ [][NextFunctions]_vars

(***************************************************************************)
(* Several coroutines in flight on one client (asyncio: one thread, a      *)
(* coroutine runs until it awaits).  A coroutine takes two steps: from its *)
(* start to `await self.session.request(...)`, and from the arrival of the *)
(* response to its return.  `await response.text()` is not a step of its   *)
(* own: the coroutine touches no field of the client between the two       *)
(* awaits.                                                                 *)
(***************************************************************************)
TaskIds == 1..NumTasks
ConcurrentOps == {"version", "define_household_support"}

\* a coroutine: fetched tells whether its request was answered and decoded,
\* ver and flag are what it returned
Task(op, pc, exc, fetched, ver, flag) ==
    [op |-> op, pc |-> pc, exc |-> exc, fetched |-> fetched, ver |-> ver,
     flag |-> flag]

InitConcurrent ==
    /\ api_host = "https://demo.mealie.io"
    /\ \E c \in Constructions :
          /\ token = c.token
          /\ session = c.session
          /\ request_timeout = c.request_timeout
    /\ _close_session = FALSE
    /\ household_support = None
    /\ _version = None
    /\ closeCalls = [s \in SessionIds |-> 0]
    /\ sessionsCreated = 0
    /\ lifecycle = "constructed"
    /\ exit_path = "none"
    /\ closes = 0
    /\ last = NoCall
    /\ call = NoFunction
    /\ result = None
    /\ tasks = [t \in TaskIds |-> Task("none", "idle", NoExc, FALSE, None, None)]

\* faulty variant of task_start: the coroutine is suspended between finding
\* no session (mealie.py:81) and creating one (82-83)
task_start_suspended(t) ==
    /\ closes = 0
    /\ \/ /\ tasks[t].pc = "idle"
          /\ \E op \in ConcurrentOps :
                tasks' = [tasks EXCEPT ![t] =
                            Task(op, IF session = None THEN "creating"
                                     ELSE "awaiting", NoExc, FALSE, None, None)]
          /\ UNCHANGED << session, _close_session, sessionsCreated >>
       \/ /\ tasks[t].pc = "creating"
          /\ session' = Some("created")
          /\ _close_session' = TRUE
          /\ sessionsCreated' = sessionsCreated + 1
          /\ tasks' = [tasks EXCEPT ![t].pc = "awaiting"]
    /\ UNCHANGED << config, caches, life, last, call, result >>

\* a coroutine runs from its start to its first suspension: the `version`
\* property returns at once when a truthy version is stored; otherwise
\* _request creates the session if there is none and awaits the request
task_start(t) ==
    /\ closes = 0
    /\ tasks[t].pc = "idle"
    /\ \E op \in ConcurrentOps :
          IF op = "version" /\ TruthyChars(_version)
          THEN /\ tasks' = [tasks EXCEPT ![t] =
                               Task(op, "done", NoExc, FALSE, _version, None)]
               /\ UNCHANGED << session, _close_session, sessionsCreated >>
          ELSE /\ tasks' = [tasks EXCEPT ![t] =
                               Task(op, "awaiting", NoExc, FALSE, None, None)]
               /\ OpenSession
    /\ UNCHANGED << config, caches, life, last, call, result >>

\* the response arrives: the coroutine runs from there to its return
task_resume(t) ==
    /\ tasks[t].pc = "awaiting"
    /\ IF tasks[t].op = "version"
       THEN /\ \E x \in _get("api/app/about", None) :
                  LET about == Returned("version", x, "About")
                  IN  IF about.exc # NoExc
                      THEN /\ tasks' = [tasks EXCEPT ![t] =
                                          Task("version", "done", about.exc,
                                               FALSE, None, None)]
                           /\ UNCHANGED _version
                      ELSE /\ _version' = about.ret.text.version
                           /\ tasks' = [tasks EXCEPT ![t] =
                                          Task("version", "done", NoExc, TRUE,
                                               about.ret.text.version, None)]
            /\ UNCHANGED household_support
       ELSE /\ \E x \in _get("api/households/mealplans/today", None) :
                  LET supported == ~IsMealieError(x.exc)
                  IN  /\ household_support' = Some(supported)
                      /\ tasks' = [tasks EXCEPT ![t] =
                                     Task("define_household_support", "done",
                                          NoExc, TRUE, None, Some(supported))]
            /\ UNCHANGED _version
    /\ UNCHANGED << config, life, session, _close_session, sessionsCreated,
                    last, call, result >>

\* the caller gathered its coroutines and closes the client
close_when_gathered ==
    /\ \A t \in TaskIds : tasks[t].pc = "done"
    /\ close

NextConcurrent ==
    \/ \E t \in TaskIds : task_start(t)
    \/ \E t \in TaskIds : task_resume(t)
    \/ close_when_gathered

SpecConcurrent == InitConcurrent /\ [][NextConcurrent]_vars

(***************************************************************************)
(* Properties                                                              *)
(***************************************************************************)
ClassifiedStatuses == {400, 401, 404, 422}
JsonContentTypes == {Some(<<"application/json">>),
                     Some(<<"application/json", "; charset=utf-8">>)}
Probe == "define_household_support"

\* C1: a session supplied by the caller is never closed by the client,
\* whatever requests were made and however the client was closed; a session
\* the client created is closed once close() was awaited or the async with
\* block was left.
SessionOwnership ==
    /\ closeCalls["supplied"] = 0
    /\ (session = Some("supplied") => ~_close_session)
    /\ (session = Some("created") /\ (closes > 0 \/ lifecycle = "exited")
            => closeCalls["created"] > 0)

\* a request was made on the supplied session, the client was closed, and
\* the session is still open
SuppliedSessionLeftOpen ==
    /\ session = Some("supplied")
    /\ household_support # None
    /\ closes > 0
    /\ closeCalls["supplied"] = 0

\* C2: a client that created its own session and is used in an async with
\* block has closed that session exactly once when the block is left, on
\* every exit path, also when the only request failed with a timeout or a
\* transport error; inside the block the session is not closed yet.
OwnedSessionClosedOnce ==
    /\ (lifecycle = "exited" /\ session = Some("created")
            => closeCalls["created"] = 1)
    /\ (lifecycle = "entered" => closeCalls["created"] = 0)
    /\ (lifecycle = "exited" <=> exit_path \in {"normal", "early", "error"})

\* the block was left by the timeout of the only request made
ExitedOnTimeout ==
    /\ lifecycle = "exited"
    /\ exit_path = "error"
    /\ Len(last.reqs) = 1
    /\ last.reqs[1].transport = "timeout"
    /\ last.exc = MealieConnectionError
    /\ caches = << None, None >>
    /\ session = Some("created")
    /\ closeCalls["created"] = 1

\* C3: a response with status 400 / 401 / 404 / 422 raises BadRequest /
\* Authentication / NotFound / Validation, without the content type or the
\* body having been looked at, whatever the content type is.
StatusClassifiedFirst ==
    \A i \in 1..Len(last.reqs) :
        LET x == last.reqs[i]
        IN  x.transport = "response" =>
              /\ (x.status = 400 => x.exc = MealieBadRequestError)
              /\ (x.status = 401 => x.exc = MealieAuthenticationError)
              /\ (x.status = 404 => x.exc = MealieNotFoundError)
              /\ (x.status = 422 => x.exc = MealieValidationError)
              /\ (x.status \in ClassifiedStatuses
                    => ~x.ctypeRead /\ ~x.textRead /\ x.text = NoText)
              /\ (x.status \in ClassifiedStatuses /\ last.op # Probe
                    => last.exc = x.exc)

\* a 401 answered with a non-JSON content type raised the authentication error
UnauthorizedPlainText ==
    /\ Len(last.reqs) = 1
    /\ last.reqs[1].status = 401
    /\ last.reqs[1].content_type = Some(<<"plain/text">>)
    /\ last.exc = MealieAuthenticationError

\* C4: a response whose status is neither 2xx nor 400 / 401 / 404 / 422
\* raises the generic error whatever its content type, and is never returned
\* as a payload.
OtherStatusRaisesGeneric ==
    \A i \in 1..Len(last.reqs) :
        LET x == last.reqs[i]
        IN  /\ x.transport = "response"
            /\ x.status \notin 200..299
            /\ x.status \notin ClassifiedStatuses
            => x.exc = MealieError /\ ~x.textRead

\* C5: a response not classified by its status raises the generic error when
\* the Content-Type header is missing or lacks "application/json", also on a
\* 2xx status; the text is returned only under a JSON content type.
ContentTypeGate ==
    \A i \in 1..Len(last.reqs) :
        LET x == last.reqs[i]
        IN  x.transport = "response" /\ x.status \notin ClassifiedStatuses =>
              /\ (x.content_type \notin JsonContentTypes
                    => x.exc = MealieError /\ ~x.textRead)
              /\ (x.content_type \notin JsonContentTypes /\ last.op # Probe
                    => last.exc = MealieError)
              /\ (x.textRead => x.content_type \in JsonContentTypes)

\* a 200 without a Content-Type header raised the generic error
OkWithoutContentType ==
    /\ Len(last.reqs) = 1
    /\ last.reqs[1].status = 200
    /\ last.reqs[1].content_type = None
    /\ last.reqs[1].transport = "response"
    /\ last.exc = MealieError

\* C6: a request whose deadline expires before the response arrives, or whose
\* transport fails to connect, raises MealieConnectionError and nothing else,
\* and its response is not classified; no response is taken after the
\* deadline.
DeadlineRaisesConnectionError ==
    \A i \in 1..Len(last.reqs) :
        LET x == last.reqs[i]
        IN  /\ (x.transport \in {"timeout", "connerr"} =>
                  /\ x.exc = MealieConnectionError
                  /\ ~x.classified /\ ~x.ctypeRead /\ ~x.textRead
                  /\ (last.op # Probe => last.exc = MealieConnectionError))
            /\ (x.transport = "timeout" => x.latency >= request_timeout)
            /\ (x.transport = "response" => x.latency <= request_timeout)

\* the default deadline of 10 expired
DefaultDeadlineExpired ==
    /\ request_timeout = 10
    /\ Len(last.reqs) = 1
    /\ last.reqs[1].transport = "timeout"
    /\ last.reqs[1].latency > 10
    /\ last.exc = MealieConnectionError

\* C7: every failure of an operation is one of the six errors of the
\* taxonomy; a body that cannot be decoded surfaces as the validation error.
FailuresAreTaxonomyErrors ==
    /\ (last.exc # NoExc => last.exc \in Taxonomy)
    /\ (/\ last.op \notin {"none", Probe, "add_shopping_item",
                           "update_shopping_item", "delete_shopping_item"}
        /\ Len(last.reqs) > 0
        /\ last.reqs[Len(last.reqs)].exc = NoExc
        /\ last.reqs[Len(last.reqs)].text.syntax = "malformed"
        => last.exc = MealieValidationError)

\* C8: an operation sends one request per call, successful or not, and no
\* request follows a failed one; only import_recipe sends a second request,
\* after its first succeeded.
SingleStepOps ==
    { "define_household_support", "get_startup_info", "get_about",
      "get_user_info", "get_groups_self", "get_theme", "get_recipes",
      "get_recipe", "get_mealplan_today", "get_mealplans",
      "get_shopping_lists", "get_shopping_items", "add_shopping_item",
      "update_shopping_item", "delete_shopping_item", "get_statistics",
      "random_mealplan", "set_mealplan" }

NoRetry ==
    /\ (last.op \in SingleStepOps => Len(last.reqs) = 1)
    /\ \A i \in 1..Len(last.reqs) :
          last.reqs[i].exc # NoExc => i = Len(last.reqs)

\* a call that timed out sent one request
TimedOutOnce ==
    /\ last.op = "get_startup_info"
    /\ last.exc = MealieConnectionError
    /\ Len(last.reqs) = 1
    /\ last.reqs[1].transport = "timeout"

\* C9: define_household_support sends one GET to
\* api/households/mealplans/today; a 404 sets the flag to false and returns
\* false, a 200 with a JSON body sets it to true and returns true; a scoped
\* call uses the api/households/ prefix exactly when the flag is true and
\* api/groups/ otherwise.
ScopedPathEnd ==
    [ get_mealplan_today |-> "mealplans/today",
      get_mealplans |-> "mealplans",
      get_shopping_lists |-> "shopping/lists",
      get_shopping_items |-> "shopping/items",
      add_shopping_item |-> "shopping/items",
      update_shopping_item |-> "shopping/items/64207a44",
      delete_shopping_item |-> "shopping/items/64207a44",
      get_statistics |-> "statistics",
      random_mealplan |-> "mealplans/random",
      set_mealplan |-> "mealplans" ]

HouseholdProbe ==
    /\ (last.op = Probe =>
          /\ Len(last.reqs) = 1
          /\ last.reqs[1].method = "GET"
          /\ last.reqs[1].uri = "api/households/mealplans/today"
          /\ (last.reqs[1].status = 404
                => household_support = Some(FALSE) /\ last.ret = BoolRet(FALSE))
          /\ (last.reqs[1].status = 200
                /\ last.reqs[1].content_type \in JsonContentTypes
                => household_support = Some(TRUE) /\ last.ret = BoolRet(TRUE)))
    /\ (last.op \in DOMAIN ScopedPathEnd =>
          /\ Len(last.reqs) = 1
          /\ last.reqs[1].uri =
                (IF household_support = Some(TRUE) THEN "api/households/"
                 ELSE "api/groups/") \o ScopedPathEnd[last.op])

\* a scoped call made after a probe that answered 404 went to api/groups/
ScopedCallAfterFailedProbe ==
    /\ last.op = "get_statistics"
    /\ household_support = Some(FALSE)
    /\ last.reqs[1].uri = "api/groups/statistics"

\* C10: define_household_support never raises; whenever its request fails
\* with an error of the taxonomy the flag becomes false and false is
\* returned; every other operation raises the error of its failed request.
ProbeRecovery ==
    /\ (last.op = Probe =>
          /\ last.exc = NoExc
          /\ (last.reqs[1].exc \in Taxonomy
                => household_support = Some(FALSE) /\ last.ret = BoolRet(FALSE)))
    /\ (last.op \notin {Probe, "none"} =>
          \A i \in 1..Len(last.reqs) :
              last.reqs[i].exc # NoExc => last.exc = last.reqs[i].exc)

\* a probe answered with 401 returned false
ProbeUnauthorized ==
    /\ last.op = Probe
    /\ last.reqs[1].status = 401
    /\ last.reqs[1].exc = MealieAuthenticationError
    /\ last.exc = NoExc
    /\ household_support = Some(FALSE)
    /\ last.ret = BoolRet(FALSE)

\* C11: a scoped operation sends its own request only, never the probe in
\* addition, and leaves household_support as it was; only
\* define_household_support writes the flag; with the flag never set the
\* scoped call goes to api/groups/.
NoImplicitProbe ==
    [][ /\ (last'.op \in DOMAIN ScopedPathEnd /\ last.op = "none" =>
              /\ household_support' = household_support
              /\ Len(last'.reqs) = 1
              /\ (household_support = None =>
                    last'.reqs[1].uri = "api/groups/" \o ScopedPathEnd[last'.op]))
        /\ (household_support' # household_support => last'.op = Probe)
      ]_vars

\* a scoped call was made on a client that was never probed
ScopedCallNeverProbed ==
    /\ last.op = "get_shopping_lists"
    /\ household_support = None
    /\ Len(last.reqs) = 1
    /\ last.reqs[1].uri = "api/groups/shopping/lists"

\* C12: the import POST goes to api/recipes/create-url when the cached
\* version is major.minor.patch with major below 2, and to
\* api/recipes/create/url for every other cached value (2.0.0 and above,
\* 10.0.0, "nightly", the empty string, nothing cached).
ImportEndpointSelection ==
    last.op = "import_recipe" =>
        /\ last.reqs[1].method = "POST"
        /\ last.reqs[1].uri =
              IF \E a \in {0, 1}, b \in Minors, c \in Patches :
                    _version = Some(VersionChars(a, b, c))
              THEN "api/recipes/create-url"
              ELSE "api/recipes/create/url"

\* an import with 10.0.0 cached went to the newer endpoint
ImportedOnTenZeroZero ==
    /\ last.op = "import_recipe"
    /\ _version = Some(<<"1", "0", ".", "0", ".", "0">>)
    /\ last.reqs[1].uri = "api/recipes/create/url"

\* C13: an import on a client with no version cached first fetches the
\* version from api/app/about, before the POST.
ImportFetchesVersionFirst ==
    (last.op = "import_recipe" /\ _version = None) =>
        /\ last.reqs[1].method = "GET"
        /\ last.reqs[1].uri = "api/app/about"

\* C14: an import first POSTs {"url", "include_tags"} to a create endpoint;
\* a failed POST ends the call with the POST's error and no GET; a POST
\* answered with a JSON string is followed by one GET of api/recipes/<that
\* string>, and the call returns the Recipe decoded from the GET's response.
ImportTwoSteps ==
    last.op = "import_recipe" =>
        LET post == last.reqs[1]
        IN  /\ post.method = "POST"
            /\ post.uri \in {"api/recipes/create-url", "api/recipes/create/url"}
            /\ post.json # None
            /\ DOMAIN post.json[1] = {"url", "include_tags"}
            /\ post.json[1]["url"].t = "str"
            /\ post.json[1]["url"].s \in RecipeUrls
            /\ post.json[1]["include_tags"].t = "bool"
            /\ Len(last.reqs) <= 2
            /\ (post.exc # NoExc => Len(last.reqs) = 1 /\ last.exc = post.exc)
            /\ (last.exc = NoExc => Len(last.reqs) = 2)
            /\ (post.exc = NoExc /\ post.text.syntax = "str" =>
                  /\ Len(last.reqs) = 2
                  /\ last.reqs[2].method = "GET"
                  /\ last.reqs[2].uri = "api/recipes/" \o post.text.str
                  /\ last.reqs[2].json = None
                  /\ (last.reqs[2].exc # NoExc => last.exc = last.reqs[2].exc)
                  /\ (last.exc = NoExc =>
                        last.ret = [type |-> "Recipe", text |-> last.reqs[2].text,
                                    flag |-> FALSE, ver |-> None]))

\* an import whose POST returned a slug and whose GET returned the recipe
ImportedRecipe ==
    /\ last.op = "import_recipe"
    /\ last.exc = NoExc
    /\ Len(last.reqs) = 2
    /\ last.reqs[1].text.syntax = "str"
    /\ last.reqs[2].uri = "api/recipes/original-sacher-torte-2"
    /\ last.ret.type = "Recipe"

\* C15: for every field that uses the blank normalization, decoding an
\* absent key, a null, an empty string and a whitespace-only string succeeds
\* and gives None; decoding any other string succeeds and gives the string
\* without its surrounding whitespace.
BlankNormalization ==
    (call.fn = "from_dict" /\ result # None) =>
        LET r == result[1]
            w == call.wire
            spaces(cs) == \A i \in 1..Len(cs) : cs[i] = " "
        IN  /\ r.exc = NoExc
            /\ IF w.kind \in {"absent", "null"} \/ spaces(w.chars)
               THEN r.value = None
               ELSE /\ r.value # None
                    /\ r.value[1][1] # " "
                    /\ r.value[1][Len(r.value[1])] # " "
                    /\ \E a, b \in 0..Len(w.chars) :
                          /\ a + Len(r.value[1]) + b = Len(w.chars)
                          /\ SubSeq(w.chars, a + 1, a + Len(r.value[1])) = r.value[1]
                          /\ spaces(SubSeq(w.chars, 1, a))
                          /\ spaces(SubSeq(w.chars, a + Len(r.value[1]) + 1,
                                           Len(w.chars)))

\* C16: the body made of a MutateShoppingItem has exactly the wire aliases of
\* the fields that were set as its keys, each with the value it was set to,
\* falsy values included, and no key of a field left unset.
PartialUpdateBody ==
    (call.fn = "to_dict" /\ result # None) =>
        LET alias == [ item_id |-> "id", list_id |-> "shoppingListId",
                       note |-> "note", display |-> "display",
                       checked |-> "checked", position |-> "position",
                       is_food |-> "isFood", disable_amount |-> "disableAmount",
                       quantity |-> "quantity", label_id |-> "labelId",
                       food_id |-> "foodId", unit_id |-> "unitId" ]
            given == {f \in DOMAIN call.item : call.item[f] # <<>>}
            body == result[1]
        IN  /\ DOMAIN call.item = DOMAIN alias
            /\ DOMAIN body = {alias[f] : f \in given}
            /\ \A f \in given : body[alias[f]] = call.item[f][1]

\* list_id, note "" and position 0 gave exactly shoppingListId, note, position
SerializedFalsyFields ==
    /\ call.fn = "to_dict"
    /\ result # None
    /\ {f \in DOMAIN call.item : call.item[f] # <<>>} = {"list_id", "note", "position"}
    /\ call.item["position"][1].i = 0
    /\ call.item["note"][1].s = ""
    /\ DOMAIN result[1] = {"shoppingListId", "note", "position"}
    /\ result[1]["position"].i = 0

\* C17: the body of set_mealplan always has the ISO date and the entryType;
\* it has recipeId exactly when a non-empty recipe id is given, title exactly
\* when a non-empty note title is given, and text exactly when a non-empty
\* note text is given and the title is in the body: never text without title.
MealplanBody ==
    (call.fn = "set_mealplan" /\ result # None) =>
        LET body == result[1]
            given(o) == o # <<>> /\ o # <<"">>
        IN  /\ {"date", "entryType"} \subseteq DOMAIN body
            /\ DOMAIN body \subseteq {"date", "entryType", "recipeId", "title", "text"}
            /\ body["date"].s =
                  (IF call.at.year = 2021 THEN "2021-01-01" ELSE "2024-12-31")
            /\ body["entryType"].s = call.entry_type
            /\ ("recipeId" \in DOMAIN body <=> given(call.recipe_id))
            /\ ("recipeId" \in DOMAIN body => body["recipeId"].s = call.recipe_id[1])
            /\ ("title" \in DOMAIN body <=> given(call.note_title))
            /\ ("title" \in DOMAIN body => body["title"].s = call.note_title[1])
            /\ ("text" \in DOMAIN body
                  <=> given(call.note_title) /\ given(call.note_text))
            /\ ("text" \in DOMAIN body => body["text"].s = call.note_text[1])
            /\ ("text" \in DOMAIN body => "title" \in DOMAIN body)

\* a note text given with an empty title was left out of the body
TextWithoutTitleDropped ==
    /\ call.fn = "set_mealplan"
    /\ result # None
    /\ call.note_title = <<"">>
    /\ call.note_text = <<"Note Text">>
    /\ call.recipe_id = <<"c5f00a93">>
    /\ DOMAIN result[1] = {"date", "entryType", "recipeId"}

\* C18: the query of get_mealplans has start_date (end_date) exactly when that
\* bound is given, as its ISO calendar date, never as an empty value, and
\* always perPage = -1.
MealplansQuery ==
    (call.fn = "get_mealplans" /\ result # None) =>
        LET params == result[1]
            iso(d) == IF d.year = 2021 THEN "2021-01-01" ELSE "2024-12-31"
        IN  /\ DOMAIN params \subseteq {"start_date", "end_date", "perPage"}
            /\ "perPage" \in DOMAIN params
            /\ params["perPage"].t = "int"
            /\ params["perPage"].i = -1
            /\ ("start_date" \in DOMAIN params <=> call.start_date # <<>>)
            /\ ("start_date" \in DOMAIN params =>
                  /\ params["start_date"].t = "str"
                  /\ params["start_date"].s = iso(call.start_date[1]))
            /\ ("end_date" \in DOMAIN params <=> call.end_date # <<>>)
            /\ ("end_date" \in DOMAIN params =>
                  /\ params["end_date"].t = "str"
                  /\ params["end_date"].s = iso(call.end_date[1]))

\* a query with an end date only
EndDateOnly ==
    /\ call.fn = "get_mealplans"
    /\ result # None
    /\ call.start_date = <<>>
    /\ call.end_date # <<>>
    /\ DOMAIN result[1] = {"end_date", "perPage"}
    /\ result[1]["end_date"].s = "2024-12-31"

\* C19: with several coroutines in flight the client creates at most one
\* session, which close() closes; a cached version is the version returned
\* by a completed fetch, and a set household flag is the answer of a
\* completed probe.
CachesNotCorrupted ==
    /\ sessionsCreated <= 1
    /\ (sessionsCreated = 1 => session = <<"created">> /\ _close_session)
    /\ (closes > 0 /\ sessionsCreated = 1 => closeCalls["created"] > 0)
    /\ (_version # <<>> =>
          \E t \in DOMAIN tasks :
              /\ tasks[t].op = "version"
              /\ tasks[t].pc = "done"
              /\ tasks[t].fetched
              /\ tasks[t].ver = _version)
    /\ (household_support # <<>> =>
          \E t \in DOMAIN tasks :
              /\ tasks[t].op = "define_household_support"
              /\ tasks[t].pc = "done"
              /\ tasks[t].flag = household_support)

\* two version reads raced on a client without a session, fetched different
\* versions over the one session created, and the client was closed
RacedVersionFetches ==
    /\ sessionsCreated = 1
    /\ tasks[1].op = "version" /\ tasks[1].fetched
    /\ tasks[2].op = "version" /\ tasks[2].fetched
    /\ tasks[1].ver # tasks[2].ver
    /\ _version = tasks[1].ver
    /\ closes = 1
    /\ closeCalls["created"] = 1

FailedCallFrame ==
    [][ (/\ last.op = "none"
         /\ last'.op \notin {"none", "define_household_support"}
         /\ last'.exc # NoExc) =>
          /\ api_host' = api_host
          /\ token' = token
          /\ request_timeout' = request_timeout
          /\ household_support' = household_support
          /\ _version' = _version
          /\ closeCalls' = closeCalls
          /\ IF session = <<>>
             THEN /\ session' = <<"created">>
                  /\ _close_session'
                  /\ sessionsCreated' = sessionsCreated + 1
             ELSE /\ session' = session
                  /\ _close_session' = _close_session
                  /\ sessionsCreated' = sessionsCreated
      ]_vars

\* a call that was not found, on a client with both caches filled
FailedCallWithCaches ==
    /\ last.op = "get_mealplans"
    /\ last.exc = "MealieNotFoundError"
    /\ household_support = <<TRUE>>
    /\ _version = << <<"2", ".", "0", ".", "0">> >>
    /\ session = <<"created">>
    /\ _close_session

====
